---- MODULE Spec2Model ----
(***************************************************************************)
(* Document Knowledge Converter (dkc): the word-window chunker, the card   *)
(* extractor and the per-document pipelines of src/firstAgent/src/dkc.     *)
(*                                                                         *)
(* A Python str is a sequence of one-character strings; a list is a        *)
(* sequence; a pydantic model is a record.  sha1 is an uninterpreted       *)
(* injective digest: Sha1(s) is the record [sha1 |-> s].                   *)
(***************************************************************************)
EXTENDS Integers, Sequences, FiniteSets, TLC

VARIABLES
    text,       \* chunk_doc: doc['text']
    size,       \* chunk_doc: the size argument
    overlap,    \* chunk_doc: the overlap argument
    start,      \* chunk_doc: local start
    ordinal,    \* chunk_doc: local ordinal
    chunks,     \* chunk_doc: local chunks / the returned list
    pc,         \* chunk_doc: position in the function
    file,       \* per-document pipelines: the input file [path, data]
    dop,        \* per-document pipelines: the operation that has run
    dcfg,       \* build: the (chunk, overlap) options passed to chunk_doc
    card,       \* the KnowledgeCard produced
    dchunks,    \* the chunks produced for the document
    facts,      \* the list extract_facts returned
    fs,         \* a run: the files of the input folder
    runner,     \* a run: "build" (cli.py) or "folder" (process_folder)
    bcfg,       \* a run: the (chunk, overlap) options of build
    docs,       \* a run: the sorted documents (build) or files (folder)
    idx,        \* a run: the index in docs of the next document
    cards,      \* a run: the cards accumulated
    all_chunks, \* a run: the chunks accumulated
    skipped_files, \* a run: the paths skipped
    checksums,  \* a run: process_folder's path -> checksum, as a set of pairs
    outcome,    \* a run: what happened to each document, in order
    outputs,    \* a run: the three artifacts written, <<>> before
    bpc,        \* a run: position in build / process_folder
    hlines,     \* pick_highlights: the lines argument
    hk,         \* pick_highlights: the k argument
    kw_order,   \* hi5: the iteration order of the KEYWORDS set in this process
    highlights, \* pick_highlights: the list returned
    again,      \* pick_highlights: the list a second call returned
    hpc         \* hi5: "idle", "boot", "start", "picked", "repeated",
                \* "exited", "restarted" or "rerun"

cvars == <<text, size, overlap, start, ordinal, chunks, pc>>
dvars == <<file, dop, dcfg, card, dchunks, facts>>
bvars == <<fs, runner, bcfg, docs, idx, cards, all_chunks, skipped_files,
           checksums, outcome, outputs, bpc>>
hvars == <<hlines, hk, kw_order, highlights, again, hpc>>
vars == <<cvars, dvars, bvars, hvars>>

(***************************************************************************)
(* Bounds of the model.                                                    *)
(***************************************************************************)
MaxTextLen == 8
MaxSize == 3
MaxIter == 6
MaxSentences == 6
MaxParas == 4
MaxSmall == 3
MaxFactsArg == 6
MaxFiles == 3
MaxRunSize == 2
MaxWords == 6

(***************************************************************************)
(* Python built-ins.                                                       *)
(***************************************************************************)
Min(a, b) == IF a <= b THEN a ELSE b
Max(a, b) == IF a >= b THEN a ELSE b

\* str.isspace for the characters the inputs use
IsSpace(c) == c \in {" ", "\n", "\t"}

\* c * n
Rep(c, n) == [i \in 1..n |-> c]

\* seq[lo:hi] of Python, negative indices counted from the end
Slice(s, lo, hi) ==
    LET n == Len(s)
        l == IF lo < 0 THEN Max(lo + n, 0) ELSE Min(lo, n)
        h == IF hi < 0 THEN Max(hi + n, 0) ELSE Min(hi, n)
    IN  IF l < h THEN SubSeq(s, l + 1, h) ELSE <<>>

\* the k-th smallest element of a finite set of integers
Nth(S, k) == CHOOSE i \in S : Cardinality({j \in S : j < i}) = k - 1

\* text.split(): the maximal runs of non-whitespace characters
SplitWS(s) ==
    LET begins == {i \in 1..Len(s) :
                      ~IsSpace(s[i]) /\ (i = 1 \/ IsSpace(s[i - 1]))}
        ends == {i \in 1..Len(s) :
                      ~IsSpace(s[i]) /\ (i = Len(s) \/ IsSpace(s[i + 1]))}
    IN  [k \in 1..Cardinality(begins) |-> SubSeq(s, Nth(begins, k), Nth(ends, k))]

RECURSIVE Join(_, _)
\* sep.join(parts)
Join(parts, sep) ==
    IF parts = <<>> THEN <<>>
    ELSE IF Len(parts) = 1 THEN parts[1]
    ELSE parts[1] \o sep \o Join(Tail(parts), sep)

\* hashlib.sha1(s.encode('utf-8')).hexdigest(), an injective digest
Sha1(s) == [sha1 |-> s]

\* len(d) for a hexdigest d of SHA1: 40 hexadecimal digits
HexDigestLen == 40
DigestLen(d) == IF DOMAIN d = {"sha1"} THEN HexDigestLen ELSE 0

(***************************************************************************)
(* Strings, bytes and paths.                                               *)
(***************************************************************************)
\* the places where sep occurs in s
Occurrences(s, sep) ==
    {i \in 1..(Len(s) - Len(sep) + 1) :
        s[i] = sep[1] /\ SubSeq(s, i, i + Len(sep) - 1) = sep}

\* the occurrences a left-to-right scan takes: none overlaps the one before
RECURSIVE ScanFrom(_, _, _)
ScanFrom(occ, sepLen, from) ==
    LET ahead == {i \in occ : i >= from} IN
    IF ahead = {} THEN <<>>
    ELSE LET i == CHOOSE x \in ahead : \A y \in ahead : x <= y
         IN  <<i>> \o ScanFrom(occ, sepLen, i + sepLen)

\* s.split(sep) for a non-empty separator
SplitSep(s, sep) ==
    LET cuts == ScanFrom(Occurrences(s, sep), Len(sep), 1)
        n == Len(cuts)
    IN  [k \in 1..(n + 1) |->
            SubSeq(s, IF k = 1 THEN 1 ELSE cuts[k - 1] + Len(sep),
                      IF k = n + 1 THEN Len(s) ELSE cuts[k] - 1)]

RECURSIVE FirstNonSpace(_, _)
\* the index of the first non-whitespace character from i on, Len(s)+1 if none
FirstNonSpace(s, i) ==
    IF i > Len(s) THEN i
    ELSE IF IsSpace(s[i]) THEN FirstNonSpace(s, i + 1) ELSE i

RECURSIVE LastNonSpace(_, _)
\* the index of the last non-whitespace character up to i, 0 if none
LastNonSpace(s, i) ==
    IF i < 1 THEN 0
    ELSE IF IsSpace(s[i]) THEN LastNonSpace(s, i - 1) ELSE i

\* s.strip()
Strip(s) == SubSeq(s, FirstNonSpace(s, 1), LastNonSpace(s, Len(s)))

\* [f(x) for x in s]
RECURSIVE StripAll(_)
StripAll(parts) ==
    IF parts = <<>> THEN <<>>
    ELSE <<Strip(Head(parts))>> \o StripAll(Tail(parts))

\* ord(c), on the characters of the inputs
Ord(c) ==
    CASE c = "\n" -> 10 [] c = " " -> 32 [] c = "." -> 46 [] c = "/" -> 47
      [] c = "1" -> 49 [] c = "2" -> 50 [] c = "3" -> 51 [] c = "4" -> 52
      [] c = "5" -> 53 [] c = "6" -> 54 [] c = "7" -> 55 [] c = "8" -> 56
      [] c = "9" -> 57 [] c = "T" -> 84 [] c = "X" -> 88 [] c = "a" -> 97 [] c = "b" -> 98 [] c = "c" -> 99
      [] c = "d" -> 100 [] c = "f" -> 102 [] c = "l" -> 108 [] c = "m" -> 109 [] c = "p" -> 112
      [] c = "t" -> 116 [] c = "x" -> 120 [] c = "y" -> 121
      [] c = "U+00FF" -> 255

\* chr(b), on the bytes of the inputs
Chr(b) ==
    CASE b = 10 -> "\n" [] b = 32 -> " " [] b = 46 -> "." [] b = 47 -> "/"
      [] b = 49 -> "1" [] b = 50 -> "2" [] b = 51 -> "3" [] b = 52 -> "4"
      [] b = 53 -> "5" [] b = 54 -> "6" [] b = 55 -> "7" [] b = 56 -> "8"
      [] b = 57 -> "9" [] b = 84 -> "T" [] b = 88 -> "X" [] b = 97 -> "a" [] b = 98 -> "b" [] b = 99 -> "c"
      [] b = 100 -> "d" [] b = 102 -> "f" [] b = 108 -> "l" [] b = 109 -> "m" [] b = 112 -> "p"
      [] b = 116 -> "t" [] b = 120 -> "x" [] b = 121 -> "y"
      [] b = 255 -> "U+00FF"

\* s.encode('utf-8') for ASCII s
Encode(s) == [i \in 1..Len(s) |-> Ord(s[i])]

\* data.decode('utf-8'): the byte 0xFF is valid nowhere in UTF-8, the other
\* bytes of the inputs are ASCII
Utf8Valid(data) == \A i \in 1..Len(data) : data[i] < 128
Utf8Decode(data) == [i \in 1..Len(data) |-> Chr(data[i])]

\* data.decode('latin-1'): every byte is a character
Latin1Decode(data) == [i \in 1..Len(data) |-> Chr(data[i])]

\* the last component of a path
Basename(path) ==
    LET parts == SplitSep(path, <<"/">>) IN parts[Len(parts)]

UpperLetters ==
    {"A", "B", "C", "D", "E", "F", "G", "H", "I", "J", "K", "L", "M",
     "N", "O", "P", "Q", "R", "S", "T", "U", "V", "W", "X", "Y", "Z"}

\* the lower-case letter of each upper-case letter
LowerLetters ==
    [c \in UpperLetters |->
        CASE c = "A" -> "a" [] c = "B" -> "b" [] c = "C" -> "c" [] c = "D" -> "d"
          [] c = "E" -> "e" [] c = "F" -> "f" [] c = "G" -> "g" [] c = "H" -> "h"
          [] c = "I" -> "i" [] c = "J" -> "j" [] c = "K" -> "k" [] c = "L" -> "l"
          [] c = "M" -> "m" [] c = "N" -> "n" [] c = "O" -> "o" [] c = "P" -> "p"
          [] c = "Q" -> "q" [] c = "R" -> "r" [] c = "S" -> "s" [] c = "T" -> "t"
          [] c = "U" -> "u" [] c = "V" -> "v" [] c = "W" -> "w" [] c = "X" -> "x"
          [] c = "Y" -> "y" [] c = "Z" -> "z"]

\* [a-zA-Z]
IsLetter(c) == c \in UpperLetters \/ \E u \in UpperLetters : LowerLetters[u] = c

\* str.lower(), on the characters of the inputs
Lower(s) ==
    [i \in 1..Len(s) |->
        IF s[i] \in UpperLetters THEN LowerLetters[s[i]] ELSE s[i]]

\* where the suffix of a name starts, 0 when it has none (pathlib:
\* i = name.rfind('.'), a suffix if 0 < i < len(name) - 1): the last "." of
\* the name, unless it is the first or the last character
SuffixAt(name) ==
    LET dots == {i \in 1..Len(name) : name[i] = "."}
        last == CHOOSE i \in dots : \A j \in dots : i >= j
    IN  IF dots = {} THEN 0
        ELSE IF 1 < last /\ last < Len(name) THEN last ELSE 0

\* Path(path).suffix.lower()
Suffix(path) ==
    LET name == Basename(path) IN
    IF SuffixAt(name) = 0 THEN <<>>
    ELSE Lower(SubSeq(name, SuffixAt(name), Len(name)))

\* Path(path).stem
Stem(path) ==
    LET name == Basename(path) IN
    IF SuffixAt(name) = 0 THEN name ELSE SubSeq(name, 1, SuffixAt(name) - 1)

\* the working directory of the run
Cwd == <<"/", "w">>

RECURSIVE NormParts(_, _)
NormParts(parts, acc) ==
    IF parts = <<>> THEN acc
    ELSE LET h == Head(parts) IN
         IF h = <<>> \/ h = <<".">> THEN NormParts(Tail(parts), acc)
         ELSE IF h = <<".", ".">>
              THEN NormParts(Tail(parts),
                             IF acc = <<>> THEN acc
                             ELSE SubSeq(acc, 1, Len(acc) - 1))
              ELSE NormParts(Tail(parts), Append(acc, h))

\* the one symbolic link of the file system: d/l.txt points to a.txt of the
\* same directory
SymLinkFrom == Cwd \o <<"/", "d", "/", "l", ".", "t", "x", "t">>
SymLinkTo == Cwd \o <<"/", "d", "/", "a", ".", "t", "x", "t">>

\* str(Path(path).resolve()): absolute, normalized, symbolic links followed
canon(path) ==
    LET abs == IF path # <<>> /\ path[1] = "/" THEN path
               ELSE Cwd \o <<"/">> \o path
        norm == <<"/">> \o Join(NormParts(SplitSep(abs, <<"/">>), <<>>), <<"/">>)
    IN  IF norm = SymLinkFrom THEN SymLinkTo ELSE norm

(***************************************************************************)
(* chunker.py: chunk_doc                                                   *)
(***************************************************************************)
DocId == "doc"
DocPath == <<"d", "/", "a", ".", "t", "x", "t">>

\* f"{doc_id}:{ordinal}"
ChunkKey(doc_id, ord) == <<doc_id, ":", ord>>

\* the chunk carrying its own id as its document id
MkChunkOwnId(doc_id, ord, chunk_words, source_path) ==
    [id |-> Sha1(ChunkKey(doc_id, ord)),
     doc_id |-> Sha1(ChunkKey(doc_id, ord)),
     ordinal |-> ord,
     text |-> Join(chunk_words, <<" ">>),
     source_path |-> source_path,
     page |-> 0]

\* Chunk(id=sha1(f"{doc_id}:{ordinal}"), doc_id, ordinal, text, source_path);
\* page 0 stands for None
MkChunk(doc_id, ord, chunk_words, source_path) ==
    [id |-> Sha1(ChunkKey(doc_id, ord)),
     doc_id |-> doc_id,
     ordinal |-> ord,
     text |-> Join(chunk_words, <<" ">>),
     source_path |-> source_path,
     page |-> 0]

\* line 30: if len(words) <= size
IsShortOffByOne(n, sz) == n <= sz + 1
IsShort(n, sz) == n <= sz

NextStartNoOverlap(end, ovl) == end
NextStartOneBack(end, ovl) == end - ovl - 1
NextStartSkipping(end, ovl) == end + ovl
NextStartGap(end, ovl) == end - ovl + 1

\* the next start position: start = end - overlap
NextStart(end, ovl) == end - ovl

\* the first ordinal of the sliding window
FirstOrdinal == 1

\* the per-document pipelines have not started and never run
DocIdle ==
    /\ file = <<>>
    /\ dop = "idle"
    /\ dcfg = <<>>
    /\ card = <<>>
    /\ dchunks = <<>>
    /\ facts = <<>>

\* pick_highlights is not called
HiIdle ==
    /\ hlines = <<>>
    /\ hk = 0
    /\ kw_order = <<>>
    /\ highlights = <<>>
    /\ again = <<>>
    /\ hpc = "idle"

\* no run of build or process_folder has started and none starts
RunIdle ==
    /\ fs = {}
    /\ runner = "idle"
    /\ bcfg = <<>>
    /\ docs = <<>>
    /\ idx = 0
    /\ cards = <<>>
    /\ all_chunks = <<>>
    /\ skipped_files = <<>>
    /\ checksums = {}
    /\ outcome = <<>>
    /\ outputs = <<>>
    /\ bpc = "idle"

(***************************************************************************)
(* chunk_doc as a function, for the callers of chunk_doc.  It is defined   *)
(* where the loop ends, that is for overlap < size (see C4).               *)
(***************************************************************************)
RECURSIVE ChunkDocLoop(_, _, _, _, _, _, _, _)
ChunkDocLoop(words, doc_id, source_path, sz, ovl, st, ord, acc) ==
    IF st >= Len(words) THEN acc
    ELSE LET end == Min(st + sz, Len(words))
             out == Append(acc,
                       MkChunk(doc_id, ord, Slice(words, st, end), source_path))
         IN  IF end >= Len(words) THEN out
             ELSE ChunkDocLoop(words, doc_id, source_path, sz, ovl,
                               NextStart(end, ovl), ord + 1, out)

\* chunk_doc(doc, doc_id, size, overlap)
ChunkDoc(doc, doc_id, sz, ovl) ==
    LET words == SplitWS(doc.text) IN
    IF Len(words) = 0 THEN <<>>
    ELSE IF IsShort(Len(words), sz)
         THEN <<MkChunk(doc_id, 1, words, doc.path)>>
         ELSE ChunkDocLoop(words, doc_id, doc.path, sz, ovl, 0, FirstOrdinal, <<>>)

(***************************************************************************)
(* loader.py.  A file is [path, data, readable, pdf]: data is the sequence *)
(* of its bytes, readable is whether open() succeeds, and pdf is what the  *)
(* PdfReader library makes of a .pdf file: whether it fails on it          *)
(* (corrupt), and otherwise the texts of the pages.                        *)
(***************************************************************************)
NoPdf == [corrupt |-> FALSE, pages |-> <<>>]
SuffixTxt == <<".", "t", "x", "t">>
SuffixMd == <<".", "m", "d">>
SuffixPdf == <<".", "p", "d", "f">>
PDF_EXT == {SuffixPdf}
TXT_EXT == {SuffixTxt, SuffixMd}

\* the structure read_txt and read_pdf return when reading fails
EmptyDoc(f, kind) ==
    [path |-> f.path, kind |-> kind, text |-> <<>>, bytes |-> Len(f.data)]

\* read_txt: the document of a text file; the empty structure when the
\* file cannot be opened or its bytes are not UTF-8
read_txt(f) ==
    IF f.readable /\ Utf8Valid(f.data)
    THEN [path |-> f.path, kind |-> "txt", text |-> Utf8Decode(f.data),
          bytes |-> Len(f.data)]
    ELSE EmptyDoc(f, "txt")

\* full_text += page_text + "\n", over the pages
RECURSIVE PagesText(_)
PagesText(pages) ==
    IF pages = <<>> THEN <<>>
    ELSE Head(pages) \o <<"\n">> \o PagesText(Tail(pages))

\* read_pdf: the document of a PDF file; the empty structure when the
\* reader fails
read_pdf(f) ==
    IF f.readable /\ ~f.pdf.corrupt
    THEN [path |-> f.path, kind |-> "pdf", text |-> Strip(PagesText(f.pdf.pages)),
          bytes |-> Len(f.data)]
    ELSE EmptyDoc(f, "pdf")

\* the files load_folder reads, the others are passed over in silence
IsSupported(f) == Suffix(f.path) \in PDF_EXT \cup TXT_EXT

\* lines 148-153: the document of one supported file
LoadOne(f) == IF Suffix(f.path) \in PDF_EXT THEN read_pdf(f) ELSE read_txt(f)

(***************************************************************************)
(* cli.py: build_knowledge_card                                            *)
(***************************************************************************)
MaxFacts == 5
MinFactLen == 20
ExcerptLen == 200
Ellipsis == <<".", ".", ".">>

\* [s.strip() for s in text.split('.') if s.strip()]
Sentences(t) ==
    SelectSeq(StripAll(SplitSep(t, <<".">>)), LAMBDA x : x # <<>>)

\* the filter letting a sentence of exactly 20 characters through
IsFactFrom20(x) == Len(x) >= MinFactLen

\* len(s) > 20
IsFact(x) == Len(x) > MinFactLen

\* the facts without the cap of 5 sentences
CardFactsUncapped(t) == SelectSeq(Sentences(t), IsFact)

\* facts = [s for s in sentences[:5] if len(s) > 20]
CardFacts(t) == SelectSeq(Slice(Sentences(t), 0, MaxFacts), IsFact)

\* the excerpt cut one character early: len(text) >= 200
TextExcerptFrom200(t) ==
    IF Len(t) >= ExcerptLen THEN Slice(t, 0, ExcerptLen) \o Ellipsis ELSE t

\* the excerpt with the marker appended to the whole text
TextExcerptWhole(t) ==
    IF Len(t) > ExcerptLen THEN t \o Ellipsis ELSE t

\* text[:200] + "..." if len(text) > 200 else text
TextExcerpt(t) ==
    IF Len(t) > ExcerptLen THEN Slice(t, 0, ExcerptLen) \o Ellipsis ELSE t

\* the citation naming the source path as its document
MkCitationByPath(doc_id, source_path, t) ==
    [doc_id |-> Sha1(source_path), source_path |-> source_path,
     text_excerpt |-> TextExcerpt(t)]

\* Citation(doc_id, source_path, text_excerpt)
MkCitation(doc_id, source_path, t) ==
    [doc_id |-> doc_id, source_path |-> source_path,
     text_excerpt |-> TextExcerpt(t)]

\* str(n) for an integer n: its decimal digits, which are no hexdigest
Decimal(n) == [decimal |-> n]

\* sha1(f"{canon(doc['path'])}:{doc['bytes']}")
CliDocId(doc) == Sha1(<<canon(doc.path), ":", Decimal(doc.bytes)>>)

\* the card of a document; acronyms and entities, which no property here
\* reads, are left out of the record
build_knowledge_card(doc) ==
    LET doc_id == CliDocId(doc) IN
    [id |-> doc_id,
     title |-> Stem(doc.path),
     source_path |-> doc.path,
     facts |-> CardFacts(doc.text),
     citations |-> <<MkCitation(doc_id, doc.path, doc.text)>>]

(***************************************************************************)
(* cards.py: validate_card                                                 *)
(***************************************************************************)
\* validate_card(card): id, title and source_path are non-empty and there
\* are at most 5 facts
validate_card(k) ==
    /\ DigestLen(k.id) # 0
    /\ k.title # <<>>
    /\ k.source_path # <<>>
    /\ Len(k.facts) <= MaxFacts

(***************************************************************************)
(* processors.py                                                           *)
(***************************************************************************)
MinParaLen == 50

\* calculate_checksum: the SHA1 of the file's bytes
calculate_checksum(f) == Sha1(f.data)

\* generate_doc_id(source_path, checksum)
generate_doc_id(source_path, checksum) == Sha1(<<source_path, ":", checksum>>)

\* generate_chunk_id(doc_id, ordinal)
generate_chunk_id(doc_id, ord) == Sha1(ChunkKey(doc_id, ord))

\* read_txt_file: UTF-8, and latin-1 when the bytes do not decode
read_txt_file(f) ==
    IF Utf8Valid(f.data) THEN Utf8Decode(f.data) ELSE Latin1Decode(f.data)

\* read_pdf_file: (full_text.strip(), pages)
read_pdf_file(f) ==
    [text |-> Strip(PagesText(f.pdf.pages)), pages |-> f.pdf.pages]

\* extract_facts(text, max_facts)
extract_facts(t, max_facts) ==
    SelectSeq(Slice(Sentences(t), 0, max_facts), IsFact)

\* [p.strip() for p in text.split('\n\n') if p.strip()]
Paragraphs(t) ==
    SelectSeq(StripAll(SplitSep(t, <<"\n", "\n">>)), LAMBDA x : x # <<>>)

\* lines 116-122: the number of the first page holding the paragraph, 0
\* standing for None
PageOf(paragraph, pages) ==
    LET holds == {k \in 1..Len(pages) : Occurrences(pages[k], paragraph) # {}}
    IN  IF holds = {} THEN 0
        ELSE CHOOSE k \in holds : \A j \in holds : k <= j

\* the ordinal create_chunks gives the paragraph of enumerate index i
ParagraphOrdinal(i) == i

\* create_chunks: the enumerate index i of a paragraph is its ordinal,
\* paragraphs under 50 characters are skipped; pages is <<>> for None
RECURSIVE CreateChunksFrom(_, _, _, _, _)
CreateChunksFrom(paras, i, doc_id, source_path, pages) ==
    IF i >= Len(paras) THEN <<>>
    ELSE LET rest == CreateChunksFrom(paras, i + 1, doc_id, source_path, pages) IN
         IF Len(paras[i + 1]) < MinParaLen THEN rest
         ELSE <<[id |-> generate_chunk_id(doc_id, ParagraphOrdinal(i)),
                 doc_id |-> doc_id,
                 ordinal |-> ParagraphOrdinal(i),
                 text |-> paras[i + 1],
                 source_path |-> source_path,
                 page |-> PageOf(paras[i + 1], pages)]>> \o rest

create_chunks(t, doc_id, source_path, pages) ==
    CreateChunksFrom(Paragraphs(t), 0, doc_id, source_path, pages)

\* whether process_document raises: the checksum cannot be read, the PDF
\* reader fails, or the suffix is neither .pdf nor .txt
ProcessRaises(f) ==
    \/ ~f.readable
    \/ Suffix(f.path) = SuffixPdf /\ f.pdf.corrupt
    \/ Suffix(f.path) \notin {SuffixPdf, SuffixTxt}

\* process_document when it returns: (card, chunks, checksum)
process_document(f) ==
    LET checksum == calculate_checksum(f)
        doc_id == generate_doc_id(f.path, checksum)
        t == IF Suffix(f.path) = SuffixPdf THEN read_pdf_file(f).text
             ELSE read_txt_file(f)
        pages == IF Suffix(f.path) = SuffixPdf THEN read_pdf_file(f).pages
                 ELSE <<>>
    IN  [card |-> [id |-> doc_id,
                   title |-> Stem(f.path),
                   source_path |-> f.path,
                   facts |-> extract_facts(t, MaxFacts),
                   citations |-> <<MkCitation(doc_id, f.path, t)>>],
         chunks |-> create_chunks(t, doc_id, f.path, pages),
         checksum |-> checksum]

(***************************************************************************)
(* Spec: chunk_doc, one loop iteration per step.                           *)
(***************************************************************************)
\* the text of n words of pairwise different lengths: "a aa aaa ..."
WordsText(n) == Join([i \in 1..n |-> Rep("a", i)], <<" ">>)

Texts ==
    UNION {[1..n -> {"a", " "}] : n \in 0..MaxTextLen}
        \cup {WordsText(n) : n \in 1..MaxWords}
Sizes == -1..MaxSize
Overlaps == -1..MaxSize

Init ==
    /\ text \in Texts
    /\ size \in Sizes
    /\ overlap \in Overlaps
    /\ start = 0
    /\ ordinal = 0
    /\ chunks = <<>>
    /\ pc = "start"
    /\ DocIdle
    /\ RunIdle
    /\ HiIdle

\* lines 27-28: if len(words) == 0: return []
ChunkDocEmpty ==
    /\ pc = "start"
    /\ Len(SplitWS(text)) = 0
    /\ chunks' = <<>>
    /\ pc' = "done"
    /\ UNCHANGED <<text, size, overlap, start, ordinal>>
    /\ UNCHANGED <<dvars, bvars, hvars>>

\* lines 30-41: the single chunk of a short document
ChunkDocSingle ==
    /\ pc = "start"
    /\ Len(SplitWS(text)) # 0
    /\ IsShort(Len(SplitWS(text)), size)
    /\ chunks' = <<MkChunk(DocId, 1, SplitWS(text), DocPath)>>
    /\ pc' = "done"
    /\ UNCHANGED <<text, size, overlap, start, ordinal>>
    /\ UNCHANGED <<dvars, bvars, hvars>>

\* lines 44-46: chunks = [], ordinal = 1, start = 0
ChunkDocEnter ==
    /\ pc = "start"
    /\ Len(SplitWS(text)) # 0
    /\ ~IsShort(Len(SplitWS(text)), size)
    /\ chunks' = <<>>
    /\ ordinal' = FirstOrdinal
    /\ start' = 0
    /\ pc' = "loop"
    /\ UNCHANGED <<text, size, overlap>>
    /\ UNCHANGED <<dvars, bvars, hvars>>

\* lines 48-75: one iteration of the while loop
ChunkDocIter ==
    /\ pc = "loop"
    /\ ordinal <= MaxIter
    /\ start < Len(SplitWS(text))
    /\ LET words == SplitWS(text)
           end == Min(start + size, Len(words))
       IN  /\ chunks' = Append(chunks,
                   MkChunk(DocId, ordinal, Slice(words, start, end), DocPath))
           /\ IF end >= Len(words)
              THEN /\ pc' = "done"
                   /\ UNCHANGED <<start, ordinal>>
              ELSE /\ start' = NextStart(end, overlap)
                   /\ ordinal' = ordinal + 1
                   /\ pc' = "loop"
    /\ UNCHANGED <<text, size, overlap>>
    /\ UNCHANGED <<dvars, bvars, hvars>>

\* line 48 false, line 77: the loop ends on its condition
ChunkDocExit ==
    /\ pc = "loop"
    /\ start >= Len(SplitWS(text))
    /\ pc' = "done"
    /\ UNCHANGED <<text, size, overlap, start, ordinal, chunks>>
    /\ UNCHANGED <<dvars, bvars, hvars>>

Next ==
    \/ ChunkDocEmpty
    \/ ChunkDocSingle
    \/ ChunkDocEnter
    \/ ChunkDocIter
    \/ ChunkDocExit

Spec == Init /\ [][Next]_vars

(***************************************************************************)
(* Claims about chunk_doc, checked under Spec.                             *)
(***************************************************************************)
ValidConfig == size >= 1 /\ 0 <= overlap /\ overlap < size

\* C3: for size >= 1 and 0 <= overlap < size, a text of exactly size words
\* yields exactly one chunk, of ordinal 1 and holding all the words, and a
\* text of size+1 words yields at least two chunks.
C3_SingleChunkBoundary ==
    (pc = "done" /\ ValidConfig) =>
        LET words == SplitWS(text) IN
        /\ Len(words) = size =>
              /\ Len(chunks) = 1
              /\ chunks[1].ordinal = 1
              /\ chunks[1].text = Join(words, <<" ">>)
        /\ Len(words) = size + 1 => Len(chunks) >= 2

\* a text of size+1 words was chunked into two chunks under a valid
\* configuration with a non-zero overlap
C3_Witness ==
    /\ pc = "done" /\ ValidConfig /\ overlap >= 1
    /\ Len(SplitWS(text)) = size + 1
    /\ Len(chunks) = 2

\* C4: a configuration with overlap >= size (or size <= 0) is rejected or
\* clamped before the sliding window is advanced: whenever the window
\* advances, the overlap in force is below the size and the window start
\* moves forward, so that the loop ends.
C4_OverlapRejectedOrClamped ==
    [][(pc = "loop" /\ pc' = "loop") =>
           (overlap' < size' /\ start' > start)]_vars

(***************************************************************************)
(* SpecDoc: the per-document pipelines on one file.                        *)
(***************************************************************************)
\* chunk_doc's own state when it is run as a function
ChunkIdle ==
    /\ text = <<>>
    /\ size = 0
    /\ overlap = 0
    /\ start = 0
    /\ ordinal = 0
    /\ chunks = <<>>
    /\ pc = "idle"

Digit(i) == <<"1", "2", "3", "4", "5", "6", "7", "8", "9">>[i]

\* the i-th sentence of a text: 21 characters once trimmed, 20 characters
\* once trimmed, or blank
Sentence(kind, i) ==
    CASE kind = "long" -> <<" ">> \o Rep("a", MinFactLen) \o <<Digit(i), " ", ".">>
      [] kind = "edge" -> <<" ">> \o Rep("c", MinFactLen - 1) \o <<Digit(i), ".">>
      [] kind = "blank" -> <<" ", ".">>

\* the i-th paragraph of a text: 50 characters, 49 characters once trimmed,
\* or blank
Para(kind, i) ==
    CASE kind = "big" -> Rep("b", MinParaLen - 1) \o <<Digit(i)>>
      [] kind = "small" -> <<" ">> \o Rep("d", MinParaLen - 2) \o <<Digit(i), " ">>
      [] kind = "blank" -> <<" ">>

RECURSIVE ConcatSentences(_, _)
ConcatSentences(kinds, i) ==
    IF i > Len(kinds) THEN <<>>
    ELSE Sentence(kinds[i], i) \o ConcatSentences(kinds, i + 1)

RECURSIVE ConcatParas(_, _)
ConcatParas(kinds, i) ==
    IF i > Len(kinds) THEN <<>>
    ELSE IF i = Len(kinds) THEN Para(kinds[i], i)
    ELSE Para(kinds[i], i) \o <<"\n", "\n">> \o ConcatParas(kinds, i + 1)

SeqsUpTo(S, n) == UNION {[1..k -> S] : k \in 0..n}

SmallTexts == SeqsUpTo({"a", " "}, MaxSmall)
FactTexts ==
    {ConcatSentences(k, 1) : k \in SeqsUpTo({"long", "edge", "blank"}, MaxSentences)}
ParaTexts ==
    {ConcatParas(k, 1) : k \in SeqsUpTo({"big", "small", "blank"}, MaxParas)}
LengthTexts ==
    {Rep("x", n) \o t : n \in (ExcerptLen - 2)..ExcerptLen,
                        t \in SeqsUpTo({"y", " "}, MaxSmall)}
DocTexts == SmallTexts \cup FactTexts \cup ParaTexts \cup LengthTexts

\* the bytes of the files: texts, and bytes that are not UTF-8
DocData ==
    {Encode(t) : t \in DocTexts}
        \cup {Encode(t) \o <<Ord("U+00FF")>> : t \in SmallTexts}

\* the (chunk, overlap) options for which chunk_doc returns
DocConfigs == {c \in (1..MaxSize) \X (0..MaxSize) : c[2] < c[1]}

\* other spellings of the path of the document, and the path of another
\* file of the same folder
DocPathDotDot ==
    <<"d", "/", ".", ".", "/", "d", "/", "a", ".", "t", "x", "t">>
DocPathAbsolute == Cwd \o <<"/">> \o DocPath
OtherDocPath == <<"d", "/", "b", ".", "t", "x", "t">>
DocPaths == {DocPath, DocPathDotDot, DocPathAbsolute, OtherDocPath}


\* the files: every text at the path of the document, the small texts at
\* the other paths and at paths of the other suffixes (a Markdown file, a
\* text file whose suffix is in upper case, a file of no supported type),
\* and a PDF the reader fails on or finds one or two pages in
DocFiles ==
    {[path |-> DocPath, data |-> d, readable |-> TRUE, pdf |-> NoPdf] :
        d \in DocData}
    \cup {[path |-> p, data |-> Encode(t), readable |-> TRUE, pdf |-> NoPdf] :
              p \in DocPaths \cup {<<"d", "/", "c", ".", "m", "d">>,
                                   <<"d", "/", "a", ".", "T", "X", "T">>,
                                   <<"d", "/", "x", ".", "d", "a", "t">>},
              t \in SmallTexts}
    \cup {[path |-> <<"d", "/", "p", ".", "p", "d", "f">>, data |-> d,
           readable |-> TRUE, pdf |-> r] :
              d \in {<<Ord("p")>>, <<Ord("a"), Ord("b")>>},
              r \in {[corrupt |-> TRUE, pages |-> <<>>],
                     [corrupt |-> FALSE, pages |-> <<Para("big", 1)>>],
                     [corrupt |-> FALSE,
                      pages |-> <<Para("big", 1), Para("small", 2)>>]}}

InitDoc ==
    /\ ChunkIdle
    /\ RunIdle
    /\ HiIdle
    /\ file \in DocFiles
    /\ dop = "none"
    /\ dcfg = <<>>
    /\ card = <<>>
    /\ dchunks = <<>>
    /\ facts = <<>>

\* cli.py build, lines 80-87: the card and the chunks of one document
\* load_folder has read; it reads the supported files only
BuildDocument ==
    /\ dop = "none"
    /\ IsSupported(file)
    /\ \E c \in DocConfigs :
          LET doc == LoadOne(file)
              k == build_knowledge_card(doc)
          IN  /\ card' = k
              /\ dchunks' = ChunkDoc(doc, k.id, c[1], c[2])
              /\ dcfg' = c
    /\ dop' = "build"
    /\ UNCHANGED <<file, facts>>
    /\ UNCHANGED <<cvars, bvars, hvars>>

\* cli.py inspect, lines 115-122: the reader the lower-cased suffix selects;
\* any other suffix raises and no card is printed
InspectRaises(f) == Suffix(f.path) \notin {SuffixPdf, SuffixTxt, SuffixMd}

InspectDoc(f) ==
    IF Suffix(f.path) = SuffixPdf THEN read_pdf(f) ELSE read_txt(f)

\* cli.py inspect: the card of one file
Inspect ==
    /\ dop = "none"
    /\ ~InspectRaises(file)
    /\ card' = build_knowledge_card(InspectDoc(file))
    /\ dop' = "inspect"
    /\ UNCHANGED <<file, dcfg, dchunks, facts>>
    /\ UNCHANGED <<cvars, bvars, hvars>>

\* processors.py process_document
ProcessDocument ==
    /\ dop = "none"
    /\ ~ProcessRaises(file)
    /\ LET r == process_document(file)
       IN  card' = r.card /\ dchunks' = r.chunks
    /\ dop' = "process"
    /\ UNCHANGED <<file, dcfg, facts>>
    /\ UNCHANGED <<cvars, bvars, hvars>>

\* processors.py extract_facts(text, max_facts)
ExtractFacts ==
    /\ dop = "none"
    /\ \E m \in 0..MaxFactsArg :
          /\ facts' = extract_facts(read_txt_file(file), m)
          /\ dcfg' = <<m>>
    /\ dop' = "extract"
    /\ UNCHANGED <<file, card, dchunks>>
    /\ UNCHANGED <<cvars, bvars, hvars>>

NextDoc ==
    \/ BuildDocument
    \/ Inspect
    \/ ProcessDocument
    \/ ExtractFacts

SpecDoc == InitDoc /\ [][NextDoc]_vars

(***************************************************************************)
(* Claims about the per-document pipelines, checked under SpecDoc.         *)
(***************************************************************************)
CardOps == {"build", "inspect", "process"}
ChunkOps == {"build", "process"}

\* the text the operation that ran has read from the file
DocText ==
    IF dop = "build" THEN LoadOne(file).text
    ELSE IF dop = "inspect" THEN InspectDoc(file).text
    ELSE IF dop = "process" /\ Suffix(file.path) = SuffixPdf
         THEN read_pdf_file(file).text
    ELSE read_txt_file(file)

\* the excerpt of the card's citation
Excerpt == card.citations[1].text_excerpt

\* the smallest element of a non-empty finite set of integers
MinOf(S) == CHOOSE i \in S : \A j \in S : i <= j

\* C1: the chunks of a document carry the ordinals 1..N in emission order,
\* for chunk_doc (build) and for create_chunks (process_document) alike.
C1_OrdinalsContiguous ==
    dop \in ChunkOps =>
        \A i \in 1..Len(dchunks) : dchunks[i].ordinal = i

\* C2: a text of at least one character yields at least one chunk, for
\* chunk_doc under 0 <= overlap < size (build) and for create_chunks
\* (process_document) alike.
C2_NonEmptyTextHasChunk ==
    (dop \in ChunkOps /\ Len(DocText) >= 1) => Len(dchunks) >= 1

\* C5: the facts of a card are the first 5, in order, of the trimmed
\* sentences longer than 20 characters (filter first, then take 5).
C5_FactsFilterThenTake ==
    dop \in CardOps =>
        card.facts = Slice(SelectSeq(Sentences(DocText), LAMBDA x : Len(x) > 20), 0, 5)

\* C6: a card has at most 5 facts, each fact is trimmed and longer than 20
\* characters, the facts occur in the text in the order of the list, and
\* extract_facts(text, m) returns at most m facts.
C6_FactsBound ==
    /\ dop \in CardOps =>
          /\ Len(card.facts) <= 5
          /\ \A i \in 1..Len(card.facts) :
                /\ Len(card.facts[i]) > 20
                /\ Strip(card.facts[i]) = card.facts[i]
                /\ Occurrences(DocText, card.facts[i]) # {}
          /\ \A i \in 1..(Len(card.facts) - 1) :
                MinOf(Occurrences(DocText, card.facts[i]))
                    < MinOf(Occurrences(DocText, card.facts[i + 1]))
    /\ dop = "extract" =>
          /\ Len(facts) <= dcfg[1]
          /\ \A i \in 1..Len(facts) : Len(facts[i]) > 20

\* a card with 5 facts, from a text with a sixth long sentence
C6_Witness ==
    /\ dop \in CardOps
    /\ Len(card.facts) = 5
    /\ Len(SelectSeq(Sentences(DocText), LAMBDA x : Len(x) > 20)) > 5

\* C7: the excerpt of a text longer than 200 characters is its first 200
\* characters followed by "..."; the excerpt of a text of at most 200
\* characters is the text.
C7_ExcerptTruncation ==
    dop \in CardOps =>
        IF Len(DocText) > 200
        THEN /\ Len(Excerpt) = 203
             /\ SubSeq(Excerpt, 1, 200) = SubSeq(DocText, 1, 200)
             /\ SubSeq(Excerpt, 201, 203) = <<".", ".", ".">>
        ELSE Excerpt = DocText

\* a text of exactly 200 characters is cited whole
C7_Witness ==
    /\ dop \in CardOps
    /\ Len(DocText) = 200
    /\ Excerpt = DocText

\* C8 as stated: the excerpt, marker included, is at most 200 characters.
C8_ExcerptAtMost200 ==
    dop \in CardOps => Len(Excerpt) <= 200

\* C8 as amended: the excerpt is at most 203 characters, the 200 characters
\* of the text and the 3 of the marker; it exceeds 200 only with the marker,
\* for a text longer than 200 characters.
C8_ExcerptAtMost203 ==
    dop \in CardOps =>
        /\ Len(Excerpt) <= 203
        /\ Len(Excerpt) > 200 => Len(DocText) > 200

\* a text of 201 characters is cited by 203
C8_Witness ==
    /\ dop \in CardOps
    /\ Len(DocText) = 201
    /\ Len(Excerpt) = 203

\* the id of the card the operation that ran gives the file f
CardIdOf(f) ==
    IF dop = "build" THEN build_knowledge_card(LoadOne(f)).id
    ELSE IF dop = "inspect" THEN build_knowledge_card(InspectDoc(f)).id
    ELSE process_document(f).card.id

\* C15: the id of a card is the digest of "{canonicalPath}:{checksum}",
\* checksum being the checksum of the bytes of the document; so two
\* documents at one canonical path with different bytes of the same length
\* have different ids.
C15_IdFromPathAndChecksum ==
    dop \in CardOps =>
        /\ card.id = Sha1(<<canon(file.path), ":", calculate_checksum(file)>>)
        /\ \A g \in DocFiles :
              (/\ canon(g.path) = canon(file.path)
               /\ Len(g.data) = Len(file.data)
               /\ g.data # file.data) => CardIdOf(g) # card.id

\* C16: the path is canonicalized before it is hashed into an id: the same
\* bytes at two spellings of one path have one id, and at two paths that
\* differ once canonicalized they have two ids.
C16_CanonicalPathInId ==
    dop \in CardOps =>
        \A g \in DocFiles :
            g.data = file.data =>
                (CardIdOf(g) = card.id <=> canon(g.path) = canon(file.path))

(***************************************************************************)
(* SpecRun: a run of build (cli.py) or of process_folder (processors.py)   *)
(* over an input folder, one document per step.  The output folder is      *)
(* writable.                                                               *)
(***************************************************************************)
\* p > q for Python strings: the descending order
LexGreater(p, q) ==
    LET n == Min(Len(p), Len(q))
        diff == {i \in 1..n : p[i] # q[i]}
    IN  IF diff = {} THEN Len(p) > Len(q)
        ELSE LET i == CHOOSE x \in diff : \A y \in diff : x <= y
             IN  Ord(p[i]) > Ord(q[i])

\* p < q for Python strings
LexLess(p, q) ==
    LET n == Min(Len(p), Len(q))
        diff == {i \in 1..n : p[i] # q[i]}
    IN  IF diff = {} THEN Len(p) < Len(q)
        ELSE LET i == CHOOSE x \in diff : \A y \in diff : x <= y
             IN  Ord(p[i]) < Ord(q[i])

\* the documents left in the order of their enumeration
Unsorted(seq) == seq

\* sorted(seq, key=path): a stable sort
SortByPath(seq) ==
    LET n == Len(seq)
        rank(i) == Cardinality({j \in 1..n : LexLess(seq[j].path, seq[i].path)})
                   + Cardinality({j \in 1..(i - 1) : seq[j].path = seq[i].path})
                   + 1
    IN  [k \in 1..n |-> seq[CHOOSE i \in 1..n : rank(i) = k]]

\* the orders in which the file system may enumerate a set of files
Enumerations(S) ==
    {e \in [1..Cardinality(S) -> S] : \A i, j \in 1..Cardinality(S) :
                                          i # j => e[i] # e[j]}

\* load_folder: the documents of the supported files, sorted by path
load_folder(enum) ==
    SortByPath([i \in 1..Len(enum) |-> LoadOne(enum[i])])

\* name matches the glob pattern "*" + ext: it ends with ext
EndsWith(name, ext) ==
    Len(name) >= Len(ext) /\ SubSeq(name, Len(name) - Len(ext) + 1, Len(name)) = ext

\* the folder a run is given
InputFolder == <<"d">>

\* process_folder, lines 182-187: the files input_folder.glob finds for
\* "*.pdf" and "*.txt": the entries of the folder itself, not those of its
\* sub-directories, whose names end with the extension as it is spelled, a
\* file named ".txt" among them
IsGlobbed(f) ==
    /\ SplitSep(f.path, <<"/">>) = <<InputFolder, Basename(f.path)>>
    /\ \E ext \in {SuffixPdf, SuffixTxt} : EndsWith(Basename(f.path), ext)

\* cli.py lines 92-94: the handler of a document's exception records the
\* path and lets the loop go on
ExtendAtFront(list, items) == items \o list

\* list.extend(items)
Extend(list, items) == list \o items

CatchAborting(path) == [skipped |-> skipped_files, pc |-> "failed"]
CatchDocException(path) ==
    [skipped |-> Append(skipped_files, path), pc |-> "loop"]

\* processors.py lines 205-207: the same handler in process_folder
CatchFolderAborting(path) == [skipped |-> skipped_files, pc |-> "failed"]
CatchFolderException(path) ==
    [skipped |-> Append(skipped_files, path), pc |-> "loop"]

\* the manifest counting the documents as its chunks
WriteManifestCountingDocs(ds, cs, chs, skipped) ==
    [total_documents |-> Len(ds),
     total_cards |-> Len(cs),
     total_chunks |-> Len(ds),
     skipped_files |-> skipped]

\* writer.py write_manifest
write_manifest(ds, cs, chs, skipped) ==
    [total_documents |-> Len(ds),
     total_cards |-> Len(cs),
     total_chunks |-> Len(chs),
     skipped_files |-> skipped]

\* processors.py write_manifest
folder_write_manifest(cs, chs, skipped, sums, now) ==
    [total_documents |-> Len(cs),
     total_cards |-> Len(cs),
     total_chunks |-> Len(chs),
     skipped_files |-> skipped,
     checksums |-> sums,
     created_at |-> now]

PathA == <<"d", "/", "a", ".", "t", "x", "t">>
PathB == <<"d", "/", "b", ".", "t", "x", "t">>
PathC == <<"d", "/", "c", ".", "m", "d">>
PathP == <<"d", "/", "p", ".", "p", "d", "f">>
PathX == <<"d", "/", "x", ".", "d", "a", "t">>
PathH == <<"d", "/", ".", "t", "x", "t">>
PathL == <<"d", "/", "l", ".", "t", "x", "t">>
PathU == <<"d", "/", "a", ".", "T", "X", "T">>
PathM == <<"d", "/", "m", "/", "a", ".", "t", "x", "t">>

GoodA == Encode(ConcatParas(<<"big", "big">>, 1))
GoodB == Encode(ConcatParas(<<"small", "big">>, 1))
GoodC == Encode(<<"a", " ", "a">>)
GoodS == Encode(ConcatSentences(<<"long", "long", "long", "long", "long", "long">>, 1))
BadBytes == <<Ord("a"), Ord("U+00FF")>>

File(path, data, readable, pdf) ==
    [path |-> path, data |-> data, readable |-> readable, pdf |-> pdf]

\* what each path of the folder may hold
FileChoices ==
    {File(PathA, GoodA, TRUE, NoPdf), File(PathA, BadBytes, TRUE, NoPdf),
     File(PathA, GoodA, FALSE, NoPdf),
     File(PathB, GoodB, TRUE, NoPdf), File(PathB, BadBytes, TRUE, NoPdf),
     File(PathC, GoodC, TRUE, NoPdf),
     File(PathB, GoodS, TRUE, NoPdf),
     File(PathH, GoodC, TRUE, NoPdf),
     File(PathL, GoodA, TRUE, NoPdf),
     File(PathU, GoodC, TRUE, NoPdf),
     File(PathM, GoodB, TRUE, NoPdf),
     File(PathP, <<Ord("p")>>, TRUE, [corrupt |-> TRUE, pages |-> <<>>]),
     File(PathP, <<Ord("p")>>, TRUE,
          [corrupt |-> FALSE, pages |-> <<Para("big", 1)>>]),
     File(PathX, GoodC, TRUE, NoPdf)}

\* the folders: at most one file per path, at most MaxFiles files; the
\* symbolic link d/l.txt is there with the file it points to, and reads as
\* that file
Folders ==
    {S \in SUBSET FileChoices :
        /\ Cardinality(S) <= MaxFiles
        /\ \A f, g \in S : f.path = g.path => f = g
        /\ \A f \in S : f.path = PathL =>
               \E g \in S : g.path = PathA /\ g.data = f.data /\ g.readable}

\* the (chunk, overlap) options of a run, for which chunk_doc returns
RunConfigs == {c \in (1..MaxRunSize) \X (0..MaxRunSize) : c[2] < c[1]}

\* what may go wrong in one document of build: nothing, an exception out of
\* build_knowledge_card, an exception out of chunk_doc
Faults == {"none", "card", "chunk"}

Clock == {"t1", "t2"}

InitRun ==
    /\ ChunkIdle
    /\ DocIdle
    /\ HiIdle
    /\ fs \in Folders
    /\ runner \in {"build", "folder"}
    /\ bcfg \in IF runner = "build" THEN RunConfigs ELSE {<<>>}
    /\ docs = <<>>
    /\ idx = 0
    /\ cards = <<>>
    /\ all_chunks = <<>>
    /\ skipped_files = <<>>
    /\ checksums = {}
    /\ outcome = <<>>
    /\ outputs = <<>>
    /\ bpc = "start"

\* cli.py line 71: docs = load_folder(input_folder)
LoadFolder ==
    /\ bpc = "start" /\ runner = "build"
    /\ \E enum \in Enumerations({f \in fs : IsSupported(f)}) :
          docs' = load_folder(enum)
    /\ idx' = 1
    /\ bpc' = "loop"
    /\ UNCHANGED <<fs, runner, bcfg, cards, all_chunks, skipped_files,
                   checksums, outcome, outputs>>
    /\ UNCHANGED <<cvars, dvars, hvars>>

\* cli.py lines 79-95: one document of the loop, its handler included
BuildStep ==
    /\ bpc = "loop" /\ runner = "build"
    /\ idx <= Len(docs)
    /\ \E fault \in Faults :
          LET doc == docs[idx]
              k == build_knowledge_card(doc)
              h == CatchDocException(doc.path)
          IN  /\ outcome' = Append(outcome, fault)
              /\ cards' = IF fault = "card" THEN cards ELSE Append(cards, k)
              /\ all_chunks' =
                    IF fault = "none"
                    THEN Extend(all_chunks, ChunkDoc(doc, k.id, bcfg[1], bcfg[2]))
                    ELSE all_chunks
              /\ skipped_files' = IF fault = "none" THEN skipped_files ELSE h.skipped
              /\ bpc' = IF fault = "none" THEN "loop" ELSE h.pc
    /\ idx' = idx + 1
    /\ UNCHANGED <<fs, runner, bcfg, docs, checksums, outputs>>
    /\ UNCHANGED <<cvars, dvars, hvars>>

\* cli.py lines 97-101: the three artifacts
WriteOutputs ==
    /\ bpc = "loop" /\ runner = "build"
    /\ idx > Len(docs)
    /\ outputs' = [cards_jsonl |-> cards,
                   chunks_jsonl |-> all_chunks,
                   manifest_json |-> write_manifest(docs, cards, all_chunks,
                                                    skipped_files)]
    /\ bpc' = "done"
    /\ UNCHANGED <<fs, runner, bcfg, docs, idx, cards, all_chunks,
                   skipped_files, checksums, outcome>>
    /\ UNCHANGED <<cvars, dvars, hvars>>

\* processors.py lines 182-194: the files to process
ListFolder ==
    /\ bpc = "start" /\ runner = "folder"
    /\ \E enum \in Enumerations({f \in fs : IsGlobbed(f)}) :
          docs' = SortByPath(enum)
    /\ idx' = 1
    /\ bpc' = "loop"
    /\ UNCHANGED <<fs, runner, bcfg, cards, all_chunks, skipped_files,
                   checksums, outcome, outputs>>
    /\ UNCHANGED <<cvars, dvars, hvars>>

\* processors.py lines 196-207: one file of the loop, its handler included
FolderStep ==
    /\ bpc = "loop" /\ runner = "folder"
    /\ idx <= Len(docs)
    /\ LET f == docs[idx] IN
       IF ProcessRaises(f)
       THEN LET h == CatchFolderException(f.path) IN
            /\ outcome' = Append(outcome, "raise")
            /\ skipped_files' = h.skipped
            /\ bpc' = h.pc
            /\ UNCHANGED <<cards, all_chunks, checksums>>
       ELSE LET r == process_document(f) IN
            /\ outcome' = Append(outcome, "none")
            /\ cards' = Append(cards, r.card)
            /\ all_chunks' = Extend(all_chunks, r.chunks)
            /\ checksums' = {c \in checksums : c[1] # f.path}
                                \cup {<<f.path, r.checksum>>}
            /\ UNCHANGED <<skipped_files, bpc>>
    /\ idx' = idx + 1
    /\ UNCHANGED <<fs, runner, bcfg, docs, outputs>>
    /\ UNCHANGED <<cvars, dvars, hvars>>

\* processors.py lines 209-212: the three artifacts
WriteFolderOutputs ==
    /\ bpc = "loop" /\ runner = "folder"
    /\ idx > Len(docs)
    /\ \E now \in Clock :
          outputs' = [cards_jsonl |-> cards,
                      chunks_jsonl |-> all_chunks,
                      manifest_json |-> folder_write_manifest(cards, all_chunks,
                                            skipped_files, checksums, now)]
    /\ bpc' = "done"
    /\ UNCHANGED <<fs, runner, bcfg, docs, idx, cards, all_chunks,
                   skipped_files, checksums, outcome>>
    /\ UNCHANGED <<cvars, dvars, hvars>>

NextRun ==
    \/ LoadFolder
    \/ BuildStep
    \/ WriteOutputs
    \/ ListFolder
    \/ FolderStep
    \/ WriteFolderOutputs

SpecRun == InitRun /\ [][NextRun]_vars

(***************************************************************************)
(* Claims about a run, checked under SpecRun.                              *)
(***************************************************************************)
\* a text file that reads and decodes, and one whose bytes do not decode
WellFormedTxt(f) ==
    Suffix(f.path) = SuffixTxt /\ f.readable /\ Utf8Valid(f.data)
UndecodableTxt(f) ==
    Suffix(f.path) = SuffixTxt /\ f.readable /\ ~Utf8Valid(f.data)

\* the elements of a sequence
Range(seq) == {seq[i] : i \in 1..Len(seq)}

\* C9: over a folder of one well-formed document and one file whose bytes
\* cannot be decoded, the run ends with exactly one card and with the
\* undecodable file's path in the manifest's skipped files.
C9_SkipIsolation ==
    (/\ bpc = "done"
     /\ \A i \in 1..Len(outcome) : outcome[i] \notin {"card", "chunk"}
     /\ \E g, b \in fs : fs = {g, b} /\ WellFormedTxt(g) /\ UndecodableTxt(b))
    => /\ Len(outputs.cards_jsonl) = 1
       /\ \A b \in fs : UndecodableTxt(b) =>
              b.path \in Range(outputs.manifest_json.skipped_files)

\* the paths of the documents whose processing failed, in order
FailedPaths ==
    LET F == {i \in 1..Len(outcome) : outcome[i] # "none"}
    IN  [k \in 1..Cardinality(F) |-> docs[Nth(F, k)].path]

\* C10: a failure in a document never aborts the run: the run is never in
\* the failed state, it goes on to the next document; the skipped files are
\* the paths of the failed documents, each appended at its turn; at the end
\* every document was processed and the three artifacts are written.
C10_FailureNeverAborts ==
    /\ bpc \in {"start", "loop", "done"}
    /\ bpc = "loop" => idx = Len(outcome) + 1 /\ idx <= Len(docs) + 1
    /\ skipped_files = FailedPaths
    /\ bpc = "done" =>
          /\ Len(outcome) = Len(docs)
          /\ DOMAIN outputs = {"cards_jsonl", "chunks_jsonl", "manifest_json"}
          /\ outputs.manifest_json.skipped_files = FailedPaths

\* a run that is done, in which a document failed and a later one got its
\* card
C10_Witness ==
    /\ bpc = "done"
    /\ \E i \in 1..(Len(outcome) - 1) :
          outcome[i] # "none" /\ outcome[i + 1] = "none"
    /\ Len(outputs.cards_jsonl) >= 1
    /\ Len(outputs.manifest_json.skipped_files) >= 1

\* C11: every card a run has accumulated, and every card it emits, is
\* well-formed: id, title and source path are non-empty and there are at
\* most 5 facts; a document that failed while its card was built has no
\* card and its path is among the skipped files.
C11_EmittedCardsWellFormed ==
    /\ \A i \in 1..Len(cards) : validate_card(cards[i])
    /\ bpc = "done" =>
          /\ \A i \in 1..Len(outputs.cards_jsonl) :
                validate_card(outputs.cards_jsonl[i])
          /\ \A i \in 1..Len(outcome) :
                outcome[i] \in {"card", "raise"} =>
                    /\ docs[i].path \in Range(outputs.manifest_json.skipped_files)
                    /\ \A j \in 1..Len(outputs.cards_jsonl) :
                          outputs.cards_jsonl[j].source_path # docs[i].path

\* a build that emitted a card of 5 facts for a text of 6 long sentences
\* and skipped a document whose card could not be built
C11_Witness ==
    /\ bpc = "done" /\ runner = "build"
    /\ \E i \in 1..Len(outcome) : outcome[i] = "card"
    /\ \E j \in 1..Len(outputs.cards_jsonl) :
          Len(outputs.cards_jsonl[j].facts) = MaxFacts
    /\ \E i \in 1..Len(docs) : Len(CardFactsUncapped(docs[i].text)) > MaxFacts

\* the number of chunks of the i-th document of the run, when it is
\* processed without failure
DocChunkCount(i) ==
    IF runner = "build"
    THEN Len(ChunkDoc(docs[i], CliDocId(docs[i]), bcfg[1], bcfg[2]))
    ELSE Len(process_document(docs[i]).chunks)

\* the chunks of the documents up to the i-th that were processed without
\* failure
RECURSIVE SuccessfulChunkCount(_)
SuccessfulChunkCount(i) ==
    IF i = 0 THEN 0
    ELSE SuccessfulChunkCount(i - 1)
             + (IF outcome[i] = "none" THEN DocChunkCount(i) ELSE 0)

\* C12: after a run, whatever failed in it, the manifest's total_chunks is
\* the number of chunk records emitted, which is the sum of the chunk counts
\* of the documents processed without failure; total_cards is the number of
\* cards emitted and is at most total_documents.
C12_ManifestConsistency ==
    bpc = "done" =>
        LET mf == outputs.manifest_json IN
        /\ mf.total_chunks = Len(outputs.chunks_jsonl)
        /\ mf.total_chunks = SuccessfulChunkCount(Len(docs))
        /\ mf.total_cards = Len(outputs.cards_jsonl)
        /\ mf.total_cards <= mf.total_documents

\* a build of three documents: one failed in its card, one in its chunks,
\* and one gave several chunks
C12_Witness ==
    /\ bpc = "done" /\ runner = "build"
    /\ \E i, j, k \in 1..Len(outcome) :
          outcome[i] = "card" /\ outcome[j] = "chunk" /\ outcome[k] = "none"
    /\ outputs.manifest_json.total_chunks >= 2
    /\ outputs.manifest_json.total_cards < outputs.manifest_json.total_documents

\* C13: after a run, every emitted chunk's doc_id is the id of a card
\* emitted in the same run, and the chunk's source path is that card's; so
\* no chunk is emitted for a document without an emitted card.
C13_ChunksReferenceCards ==
    bpc = "done" =>
        \A i \in 1..Len(outputs.chunks_jsonl) :
            \E j \in 1..Len(outputs.cards_jsonl) :
                /\ outputs.cards_jsonl[j].id = outputs.chunks_jsonl[i].doc_id
                /\ outputs.cards_jsonl[j].source_path
                       = outputs.chunks_jsonl[i].source_path

\* a run that emitted the chunks of two documents and skipped a third
C13_Witness ==
    /\ bpc = "done"
    /\ \E i, j \in 1..Len(outputs.chunks_jsonl) :
          outputs.chunks_jsonl[i].doc_id # outputs.chunks_jsonl[j].doc_id
    /\ \E i \in 1..Len(outcome) : outcome[i] # "none"

\* the ids of a sequence of cards or chunks
Ids(seq) == [i \in 1..Len(seq) |-> seq[i].id]

\* no failure was injected into the run: what happened to each document
\* follows from the files alone
FaultFree == \A i \in 1..Len(outcome) : outcome[i] \in {"none", "raise"}

\* the chunk ids of another build over the documents ds, from the i-th on
RECURSIVE OtherBuildChunkIds(_, _)
OtherBuildChunkIds(ds, i) ==
    IF i > Len(ds) THEN <<>>
    ELSE Ids(ChunkDoc(ds[i], CliDocId(ds[i]), bcfg[1], bcfg[2]))
             \o OtherBuildChunkIds(ds, i + 1)

\* the chunk ids of another process_folder over the files fl, from the
\* i-th on
RECURSIVE OtherFolderChunkIds(_, _)
OtherFolderChunkIds(fl, i) ==
    IF i > Len(fl) THEN <<>>
    ELSE Ids(process_document(fl[i]).chunks) \o OtherFolderChunkIds(fl, i + 1)

\* what another run over the same files yields when the file system
\* enumerates them in the order enum: card ids, chunk ids and checksums
OtherRun(enum) ==
    IF runner = "build"
    THEN LET ds == load_folder(enum) IN
         [card_ids |-> [i \in 1..Len(ds) |-> CliDocId(ds[i])],
          chunk_ids |-> OtherBuildChunkIds(ds, 1),
          checksums |-> {}]
    ELSE LET fl == SelectSeq(SortByPath(enum), LAMBDA f : ~ProcessRaises(f)) IN
         [card_ids |-> [i \in 1..Len(fl) |-> process_document(fl[i]).card.id],
          chunk_ids |-> OtherFolderChunkIds(fl, 1),
          checksums |-> {<<fl[i].path, calculate_checksum(fl[i])>> :
                            i \in 1..Len(fl)}]

\* C14: a run yields the card ids, the chunk id sequence and the per-file
\* checksums of every other run over the same paths and bytes, whatever the
\* order in which the file system enumerates the files and whatever the
\* creation timestamp.
C14_Determinism ==
    (bpc = "done" /\ FaultFree) =>
        \A enum \in Enumerations({f \in fs : IF runner = "build" THEN IsSupported(f)
                                                                 ELSE IsGlobbed(f)}) :
            LET other == OtherRun(enum) IN
            /\ Ids(outputs.cards_jsonl) = other.card_ids
            /\ Ids(outputs.chunks_jsonl) = other.chunk_ids
            /\ runner = "folder" =>
                   outputs.manifest_json.checksums = other.checksums

\* a run over three files that emitted several cards and chunks
C14_Witness ==
    /\ bpc = "done" /\ FaultFree
    /\ Len(docs) = 3
    /\ Len(outputs.cards_jsonl) >= 2
    /\ Len(outputs.chunks_jsonl) >= 2

\* C17: within a run, the ids of the emitted cards are pairwise distinct
\* and the ids of the emitted chunks are pairwise distinct, over all the
\* documents of the run.
C17_IdsUnique ==
    bpc = "done" =>
        /\ \A i, j \in 1..Len(outputs.cards_jsonl) :
              i # j => outputs.cards_jsonl[i].id # outputs.cards_jsonl[j].id
        /\ \A i, j \in 1..Len(outputs.chunks_jsonl) :
              i # j => outputs.chunks_jsonl[i].id # outputs.chunks_jsonl[j].id

\* ps[1] < ps[2] < ... in the order of the code points
Ascending(ps) ==
    \A i \in 1..(Len(ps) - 1) :
        LET n == Min(Len(ps[i]), Len(ps[i + 1]))
            d == {k \in 1..n : ps[i][k] # ps[i + 1][k]}
        IN  IF d = {} THEN Len(ps[i]) < Len(ps[i + 1])
            ELSE Ord(ps[i][MinOf(d)]) < Ord(ps[i + 1][MinOf(d)])

\* C18: the documents are processed one at a time in ascending order of
\* path, whatever the order in which the file system enumerates them: the
\* documents of the run are the files of the folder in ascending order of
\* path, those processed so far are a prefix of them, and the cards and the
\* skipped files are each in ascending order of path.
C18_ProcessedInPathOrder ==
    bpc \in {"loop", "done"} =>
        /\ Ascending([i \in 1..Len(docs) |-> docs[i].path])
        /\ {docs[i].path : i \in 1..Len(docs)}
               = {f.path : f \in {g \in fs : IF runner = "build" THEN IsSupported(g)
                                                                 ELSE IsGlobbed(g)}}
        /\ Len(outcome) = idx - 1
        /\ Ascending([i \in 1..Len(cards) |-> cards[i].source_path])
        /\ Ascending(skipped_files)

\* a run over three files in which two cards were emitted and two files
\* skipped
C18_Witness ==
    /\ bpc = "done"
    /\ Len(docs) = 3
    /\ Len(outputs.cards_jsonl) >= 2
    /\ Len(outputs.manifest_json.skipped_files) >= 2

\* a file that cannot be turned into a document: it cannot be read, its
\* bytes do not decode, the PDF reader fails on it, or its extension is not
\* supported
BadFile(f) ==
    \/ ~f.readable
    \/ Suffix(f.path) \in TXT_EXT /\ ~Utf8Valid(f.data)
    \/ Suffix(f.path) \in PDF_EXT /\ f.pdf.corrupt
    \/ Suffix(f.path) \notin PDF_EXT \cup TXT_EXT

\* C19: every file of the input folder that is unreadable, fails to decode
\* or has an unsupported extension is in the manifest's skipped files and
\* has no card.
C19_BadFilesSkipped ==
    (bpc = "done" /\ FaultFree) =>
        \A f \in fs :
            BadFile(f) =>
                /\ f.path \in Range(outputs.manifest_json.skipped_files)
                /\ \A j \in 1..Len(outputs.cards_jsonl) :
                      outputs.cards_jsonl[j].source_path # f.path

\* C20: the manifest written at the end of a run has a checksums mapping
\* with exactly one entry, path -> checksum of the content, for each
\* document processed without failure and none for a skipped one, and a
\* creation timestamp.
C20_ManifestChecksums ==
    bpc = "done" =>
        LET mf == outputs.manifest_json IN
        /\ {"checksums", "created_at"} \subseteq DOMAIN mf
        /\ mf.created_at \in Clock
        /\ mf.checksums =
               {<<f.path, calculate_checksum(f)>> :
                   f \in {g \in fs : \E i \in 1..Len(outcome) :
                                        outcome[i] = "none" /\ docs[i].path = g.path}}

(***************************************************************************)
(* Further claims about the per-document pipelines, checked under SpecDoc. *)
(***************************************************************************)
\* C21: every card has exactly one citation, whose doc_id is the id of the
\* card and whose source path is the source path of the card.
C21_OneCitationOfOwnCard ==
    dop \in CardOps =>
        /\ Len(card.citations) = 1
        /\ card.citations[1].doc_id = card.id
        /\ card.citations[1].source_path = card.source_path

\* a card of a non-empty text at a path that is not in canonical form
C21_Witness ==
    /\ dop \in CardOps
    /\ file.path = DocPathDotDot
    /\ Len(card.citations) = 1
    /\ card.citations[1].text_excerpt # <<>>


\* ---------------------------------------------------------------------------
\* hi5: line scoring and highlight selection (simple/src/hi5)
\* ---------------------------------------------------------------------------

MaxLines == 3
MaxK == 2

\* str.startswith(prefix)
StartsWith(s, prefix) ==
    Len(s) >= Len(prefix) /\ SubSeq(s, 1, Len(prefix)) = prefix

KEYWORDS ==
    {<<"s", "u", "m", "m", "a", "r", "y">>,
     <<"k", "e", "y">>,
     <<"r", "e", "s", "u", "l", "t">>,
     <<"f", "i", "n", "d", "i", "n", "g">>,
     <<"t", "o", "d", "o">>}

MIN_LENGTH == 40
MAX_LENGTH == 160
MIN_CAPS_LENGTH == 3

\* one entry of the reasons list: "period", "keyword=<kw>", "bullet",
\* "len=<n>" or "all_caps"
Reason(name, kw, n) == [name |-> name, keyword |-> kw, len |-> n]

\* letters is re.sub(r'[^a-zA-Z]', '', line)
is_all_caps(line) ==
    LET letters == SelectSeq(line, IsLetter)
    IN  /\ Len(letters) >= MIN_CAPS_LENGTH
        /\ \A i \in 1..Len(letters) : letters[i] \in UpperLetters

\* score_line(line), where "U+2022" is the bullet character and order is
\* the order in which this process iterates over the KEYWORDS set: the first keyword of that order found in the
\* lower-cased line is the one reported
score_line(line, order) ==
    LET period == EndsWith(line, <<".">>)
        lower == Lower(line)
        found == {i \in 1..Len(order) :
                     \E at \in 1..(Len(lower) - Len(order[i]) + 1) :
                        SubSeq(lower, at, at + Len(order[i]) - 1) = order[i]}
        bullet == StartsWith(line, <<"-", " ">>) \/ StartsWith(line, <<"U+2022", " ">>)
        inlen == MIN_LENGTH <= Len(line) /\ Len(line) <= MAX_LENGTH
        caps == is_all_caps(line)
        B(b) == IF b THEN 1 ELSE 0
        first == CHOOSE i \in found : \A j \in found : i <= j
    IN  IF Strip(line) = <<>>
        THEN [score |-> 0, reasons |-> <<>>]
        ELSE [score |-> B(period) + B(found # {}) + B(bullet) + B(inlen) - B(caps),
              reasons |->
                  (IF period THEN <<Reason("period", <<>>, 0)>> ELSE <<>>)
               \o (IF found # {} THEN <<Reason("keyword", order[first], 0)>> ELSE <<>>)
               \o (IF bullet THEN <<Reason("bullet", <<>>, 0)>> ELSE <<>>)
               \o (IF inlen THEN <<Reason("len", <<>>, Len(line))>> ELSE <<>>)
               \o (IF caps THEN <<Reason("all_caps", <<>>, 0)>> ELSE <<>>)]

\* the candidates list: one entry per line of positive score, in line order
Candidates(lines, order) ==
    LET scored == [i \in 1..Len(lines) |-> score_line(lines[i], order)]
        entry(i) == [score |-> scored[i].score, line_no |-> i,
                     text |-> lines[i], reasons |-> scored[i].reasons]
    IN  SelectSeq([i \in 1..Len(lines) |-> entry(i)], LAMBDA c : c.score > 0)

CandidateBeforeByLine(a, b) == a.line_no < b.line_no

\* the sort key (-score, line_no): a sorts before b
CandidateBefore(a, b) ==
    \/ a.score > b.score
    \/ a.score = b.score /\ a.line_no < b.line_no

\* candidates.sort(key=...): the keys are pairwise distinct
SortCandidates(candidates) ==
    LET n == Len(candidates)
        pos(i) == Cardinality({j \in 1..n : CandidateBefore(candidates[j], candidates[i])}) + 1
    IN  [p \in 1..n |-> candidates[CHOOSE i \in 1..n : pos(i) = p]]

\* candidates[:k]
Top(candidates, k) == Slice(candidates, 0, k)

pick_highlights(lines, k, order) ==
    LET top == Top(SortCandidates(Candidates(lines, order)), k)
    IN  [r \in 1..Len(top) |->
            [rank |-> r, line_no |-> top[r].line_no, text |-> top[r].text,
             reason |-> top[r].reasons]]

\* lines of score 0 (a period, all caps), 1 (three keywords, any of which
\* may be the one reported) and 4 (bullet, keyword, period and length)
HiLines ==
    {<<"A", "B", "C", ".">>,
     <<"k", "e", "y", " ", "r", "e", "s", "u", "l", "t", " ", "t", "o", "d", "o">>,
     <<"-", " ", "t", "o", "d", "o">> \o Rep("x", MIN_LENGTH - 7) \o <<".">>}

\* the orders in which a process may iterate over the set KEYWORDS: all of
\* them, the hash of a str being seeded per process
KeywordOrders == Enumerations(KEYWORDS)

InitPick ==
    /\ ChunkIdle
    /\ DocIdle
    /\ RunIdle
    /\ hlines \in SeqsUpTo(HiLines, MaxLines)
    /\ hk \in -1..MaxK
    /\ kw_order = <<>>
    /\ highlights = <<>>
    /\ again = <<>>
    /\ hpc = "boot"

\* the process ends after its first call
ExitProcess ==
    /\ hpc = "picked"
    /\ kw_order' = <<>>
    /\ hpc' = "exited"
    /\ UNCHANGED <<hlines, hk, highlights, again>>
    /\ UNCHANGED <<cvars, dvars, bvars>>

\* a process starts, the first one or the one after it: its hash seed fixes
\* the iteration order of KEYWORDS
StartProcess ==
    /\ hpc \in {"boot", "exited"}
    /\ kw_order' \in KeywordOrders
    /\ hpc' = IF hpc = "boot" THEN "start" ELSE "restarted"
    /\ UNCHANGED <<hlines, hk, highlights, again>>
    /\ UNCHANGED <<cvars, dvars, bvars>>

\* highlights = pick_highlights(lines, k)
PickHighlights ==
    /\ hpc = "start"
    /\ highlights' = pick_highlights(hlines, hk, kw_order)
    /\ hpc' = "picked"
    /\ UNCHANGED <<hlines, hk, kw_order, again>>
    /\ UNCHANGED <<cvars, dvars, bvars>>

\* a second call on the same arguments, in the same process or in the
\* process started after the first call
PickAgain ==
    /\ hpc \in {"picked", "restarted"}
    /\ again' = pick_highlights(hlines, hk, kw_order)
    /\ hpc' = IF hpc = "picked" THEN "repeated" ELSE "rerun"
    /\ UNCHANGED <<hlines, hk, kw_order, highlights>>
    /\ UNCHANGED <<cvars, dvars, bvars>>

\* calls in one process
NextPick == StartProcess \/ PickHighlights \/ PickAgain

SpecPick == InitPick /\ [][NextPick]_vars

\* calls in one process and in the process started after it has ended
NextRerun == StartProcess \/ PickHighlights \/ PickAgain \/ ExitProcess

SpecRerun == InitPick /\ [][NextRerun]_vars


Picked == hpc \in {"picked", "repeated"}

\* the scores of the lines
HiScores == [i \in 1..Len(hlines) |-> score_line(hlines[i], kw_order).score]

Qualifying == {i \in 1..Len(hlines) : HiScores[i] > 0}

\* C22: for k >= 0, pick_highlights(lines, k) returns the first k (all, if
\* there are fewer) of the lines of score > 0 in the order of score
\* descending, then 1-based line number ascending; no line of score <= 0 is
\* returned, and the text of each entry is lines[line_no - 1].
C22_FirstKByScoreThenLine ==
    (Picked /\ hk >= 0) =>
        LET n == Len(highlights)
            score == HiScores
            qualifying == {i \in 1..Len(hlines) : score[i] > 0}
            returned == {highlights[r].line_no : r \in 1..n}
            before(i, j) == \/ score[i] > score[j]
                            \/ score[i] = score[j] /\ i < j
        IN  /\ n = Min(hk, Cardinality(qualifying))
            /\ \A r \in 1..n :
                  /\ highlights[r].line_no \in qualifying
                  /\ highlights[r].text = hlines[highlights[r].line_no]
            /\ \A r, q \in 1..n :
                  r < q => before(highlights[r].line_no, highlights[q].line_no)
            /\ \A i \in qualifying \ returned :
                  \A r \in 1..n : before(highlights[r].line_no, i)

\* k cuts the list, a line of higher score follows one of lower score, two
\* lines tie, and a line of score <= 0 is present
C22_Witness ==
    /\ Picked
    /\ hk >= 1
    /\ Cardinality(Qualifying) > hk
    /\ Len(highlights) = hk
    /\ \E i, j \in Qualifying : i < j /\ HiScores[i] < HiScores[j]
    /\ \E i \in 1..Len(hlines) : HiScores[i] <= 0

\* C23: for k >= 0 the result has at most k entries, ranks 1, 2, ..., n in
\* list order and distinct line numbers >= 1, and a second call on the same
\* input returns an identical result.
C23_BoundedRankedRepeatable ==
    (hpc \in {"picked", "repeated", "exited", "restarted", "rerun"} /\ hk >= 0) =>
        /\ Len(highlights) <= hk
        /\ \A r \in 1..Len(highlights) :
              /\ highlights[r].rank = r
              /\ highlights[r].line_no >= 1
        /\ \A r, q \in 1..Len(highlights) :
              r # q => highlights[r].line_no # highlights[q].line_no
        /\ hpc \in {"repeated", "rerun"} => again = highlights


\* ---------------------------------------------------------------------------
\* Further claims about the sliding window of chunk_doc, checked under Spec
\* and, for termination, under SpecLive
\* ---------------------------------------------------------------------------

SpecLive == Spec /\ WF_vars(Next)

Words == SplitWS(text)

Step == size - overlap

CeilDiv(a, b) == (a + b - 1) \div b

\* the words of chunk k, read back from its text
ChunkWords(k) == SplitWS(chunks[k].text)

\* C24: for a text of W > size words and 0 <= overlap < size, chunk k holds
\* the space-joined words [(k-1)*(size-overlap), min((k-1)*(size-overlap)+size, W)),
\* the sequence stops at the first window whose end is W, and there are
\* 1 + ceil((W - size) / (size - overlap)) chunks.
C24_WindowArithmetic ==
    (pc = "done" /\ ValidConfig /\ Len(Words) > size) =>
        LET W == Len(Words)
            n == Len(chunks)
            lo(k) == (k - 1) * Step
        IN  /\ n = 1 + CeilDiv(W - size, Step)
            /\ \A k \in 1..n :
                  chunks[k].text = Join(Slice(Words, lo(k), Min(lo(k) + size, W)), <<" ">>)
            /\ \A k \in 1..(n - 1) : lo(k) + size < W
            /\ lo(n) + size >= W

\* three or more windows with a non-zero overlap, the last one clamped
C24_Witness ==
    /\ pc = "done" /\ ValidConfig /\ overlap >= 1
    /\ Len(chunks) >= 3
    /\ (Len(chunks) - 1) * Step + size > Len(Words)
    /\ text = WordsText(Len(Words))

\* C25: for size >= 1 and 0 <= overlap < size chunk_doc terminates: every
\* iteration that stays in the loop moves the window start strictly forward,
\* the loop runs at most W times (one chunk per iteration), W the word
\* count, and the call returns.
C25_Terminates ==
    /\ [][(ValidConfig /\ pc = "loop" /\ pc' = "loop") => start' > start]_vars
    /\ [](ValidConfig /\ pc \in {"loop", "done"} /\ Len(Words) > size
             => Len(chunks) <= Len(Words))
    /\ (ValidConfig /\ pc = "start") ~> (pc = "done")

\* the slowest window, advancing by one word, reached the end of the
\* longest text
C25_Witness ==
    /\ pc = "done" /\ ValidConfig
    /\ overlap >= 1 /\ overlap = size - 1
    /\ text = WordsText(MaxWords)
    /\ Len(chunks) = Len(Words) - overlap

\* C26: for size >= 1 and 0 <= overlap < size every chunk has a non-empty
\* text of 1 to size words, every chunk but the last has exactly size
\* words, and the last chunk of a document of several chunks has more than
\* overlap words.
C26_ChunkSizes ==
    (pc = "done" /\ ValidConfig) =>
        LET n == Len(chunks)
        IN  /\ \A k \in 1..n :
                  /\ chunks[k].text # <<>>
                  /\ Len(ChunkWords(k)) \in 1..size
            /\ \A k \in 1..(n - 1) : Len(ChunkWords(k)) = size
            /\ n >= 2 => Len(ChunkWords(n)) > overlap

\* a last chunk shorter than the size, one word longer than the overlap
C26_Witness ==
    /\ pc = "done" /\ ValidConfig
    /\ Len(chunks) >= 2
    /\ overlap >= 1
    /\ Len(ChunkWords(Len(chunks))) = overlap + 1
    /\ Len(ChunkWords(Len(chunks))) < size

RECURSIVE WindowStart(_)
\* where chunk k starts if each chunk starts overlap words before the end
\* of the one before it
WindowStart(k) ==
    IF k = 1 THEN 0
    ELSE WindowStart(k - 1) + Len(ChunkWords(k - 1)) - overlap

WindowEnd(k) == WindowStart(k) + Len(ChunkWords(k))

\* C27: for size >= 1 and 0 <= overlap < size the windows cover the
\* document: the first chunk starts at word 0, each chunk starts overlap
\* words before the end of the previous one and repeats its last overlap
\* words, the last chunk ends at word W, and every word index 0..W-1 is in
\* some chunk.
C27_WindowsCover ==
    (pc = "done" /\ ValidConfig /\ Len(Words) > 0) =>
        LET W == Len(Words)
            n == Len(chunks)
        IN  /\ n >= 1
            /\ \A k \in 1..n :
                  ChunkWords(k) = Slice(Words, WindowStart(k), WindowEnd(k))
            /\ WindowEnd(n) = W
            /\ \A k \in 1..(n - 1) :
                  /\ Len(ChunkWords(k)) >= overlap
                  /\ Len(ChunkWords(k + 1)) >= overlap
                  /\ Slice(ChunkWords(k), Len(ChunkWords(k)) - overlap, Len(ChunkWords(k)))
                        = Slice(ChunkWords(k + 1), 0, overlap)
            /\ \A i \in 0..(W - 1) :
                  \E k \in 1..n : WindowStart(k) <= i /\ i < WindowEnd(k)

\* three windows over words of pairwise different lengths, sharing two words
C27_Witness ==
    /\ pc = "done" /\ ValidConfig
    /\ overlap >= 2
    /\ Len(chunks) >= 3
    /\ text = WordsText(Len(Words))


\* ---------------------------------------------------------------------------
\* Further claims about the runs of build and process_folder, checked under
\* SpecRun
\* ---------------------------------------------------------------------------

Carded(path) ==
    \E i \in 1..Len(outputs.cards_jsonl) : outputs.cards_jsonl[i].source_path = path

Skipped(path) == path \in Range(outputs.manifest_json.skipped_files)

\* C28: at the end of a run every discovered document has an emitted card
\* or is listed in skipped_files, never both and never neither, and
\* total_documents = total_cards + len(skipped_files).
C28_EveryDocumentAccounted ==
    bpc = "done" =>
        /\ \A d \in 1..Len(docs) : Carded(docs[d].path) # Skipped(docs[d].path)
        /\ outputs.manifest_json.total_documents
              = outputs.manifest_json.total_cards
                    + Len(outputs.manifest_json.skipped_files)

\* C29: a document whose processing fails, in its card or in its chunks,
\* leaves the cards list and the chunks list as they were before it was
\* started; only skipped_files grows, by the path of the document.
C29_FailedDocumentLeavesNoTrace ==
    [][(Len(outcome') = Len(outcome) + 1 /\ outcome'[Len(outcome')] # "none") =>
           /\ cards' = cards
           /\ all_chunks' = all_chunks
           /\ skipped_files' = Append(skipped_files, docs[idx].path)]_vars

\* the chunks of document d, as the run computes them
DocChunks(d) ==
    IF runner = "build"
    THEN ChunkDoc(docs[d], CliDocId(docs[d]), bcfg[1], bcfg[2])
    ELSE process_document(docs[d]).chunks

\* C30: the chunk stream is the concatenation, in the sorted order of the
\* documents, of the chunk lists of the documents that were chunked: the
\* chunks of a document are contiguous and in ascending ordinal, those of an
\* earlier document come before those of a later one, and a failed document
\* has none.
C30_ChunkStreamInDocumentOrder ==
    bpc = "done" =>
        LET stream == outputs.chunks_jsonl
        IN  /\ Ascending([d \in 1..Len(docs) |-> docs[d].path])
            /\ \A i, j \in 1..Len(stream) :
                  i < j =>
                     \/ /\ stream[i].source_path = stream[j].source_path
                        /\ stream[i].ordinal < stream[j].ordinal
                     \/ LexLess(stream[i].source_path, stream[j].source_path)
            /\ \A d \in 1..Len(docs) :
                  SelectSeq(stream, LAMBDA c : c.source_path = docs[d].path)
                     = IF outcome[d] = "none" THEN DocChunks(d) ELSE <<>>

\* a stream of chunks of two documents, one of them of several chunks, with a
\* failed document in the same run
C30_Witness ==
    /\ bpc = "done"
    /\ \E i \in 1..Len(outcome) : outcome[i] # "none"
    /\ \E i, j \in 1..Len(outputs.chunks_jsonl) :
          /\ i + 1 < j
          /\ outputs.chunks_jsonl[i].source_path = outputs.chunks_jsonl[i + 1].source_path
          /\ outputs.chunks_jsonl[i].source_path # outputs.chunks_jsonl[j].source_path

====
